---- MODULE Spec2Model ----
(***************************************************************************)
(* ObjectStack (jaxoplanet/object_stack.py): a tuple of pytree objects,    *)
(* an optional stacked pytree built at construction, and the mapped        *)
(* callable returned by ObjectStack.vmap, which either delegates to one    *)
(* jax.vmap over the stacked pytree or loops over the objects, indexes     *)
(* the arguments, checks the result structures and stacks the results.     *)
(*                                                                         *)
(* Arrays are [shape, data] with data in row-major order; a pytree is      *)
(* [tree, leaves] with tree a node [kind, children] and "*" the leaf.      *)
(* Python's None is a record with a flag: an axis is [none, ax], an        *)
(* optional treedef or pytree is [has, ...].                               *)
(***************************************************************************)
EXTENDS Integers, Sequences, FiniteSets, TLC

\* Largest number of objects handed to the constructor.
MaxN == 3

-----------------------------------------------------------------------------
\* Arrays

Arr(shape, data) == [shape |-> shape, data |-> data]

Scalar(v) == Arr(<<>>, <<v>>)

Vector(s) == Arr(<<Len(s)>>, s)

Rank(a) == Len(a.shape)

RECURSIVE Prod(_)
Prod(s) == IF s = <<>> THEN 1 ELSE Head(s) * Prod(Tail(s))

FirstDims(s, k) == SubSeq(s, 1, k)

DropDims(s, k) == SubSeq(s, k + 1, Len(s))

\* arg[(slice(None),) * axis + (n,)] for 0 <= axis < Rank(a), 0 <= n < a.shape[axis]
Take(a, axis, n) ==
    LET dim   == a.shape[axis + 1]
        inner == Prod(DropDims(a.shape, axis + 1))
        outer == Prod(FirstDims(a.shape, axis))
    IN  Arr(FirstDims(a.shape, axis) \o DropDims(a.shape, axis + 1),
            [k \in 1..(outer * inner) |->
                a.data[(((k - 1) \div inner) * dim + n) * inner + ((k - 1) % inner) + 1]])

\* The arrays of parts, all of one shape, joined along a new axis 0 <= axis <= rank.
StackAt(parts, axis) ==
    LET n     == Len(parts)
        s     == parts[1].shape
        inner == Prod(DropDims(s, axis))
        outer == Prod(FirstDims(s, axis))
    IN  Arr(FirstDims(s, axis) \o <<n>> \o DropDims(s, axis),
            [k \in 1..(outer * n * inner) |->
                parts[(((k - 1) \div inner) % n) + 1]
                    .data[((k - 1) \div (inner * n)) * inner + ((k - 1) % inner) + 1]])

NoneAx == [none |-> TRUE, ax |-> 0]

Ax(i) == [none |-> FALSE, ax |-> i]

\* jnp.stack / jnpu.stack: a ValueError on no arrays, on differing shapes and on
\* an axis outside [-(rank + 1), rank]; a negative axis counts from the end.
jnp_stack(parts, axis) ==
    IF Len(parts) = 0 \/ \E i \in 1..Len(parts) : parts[i].shape # parts[1].shape
    THEN [ok |-> FALSE, val |-> Scalar(0)]
    ELSE LET r == Rank(parts[1])
         IN  IF axis < -(r + 1) \/ axis > r
             THEN [ok |-> FALSE, val |-> Scalar(0)]
             ELSE [ok |-> TRUE,
                   val |-> StackAt(parts, IF axis < 0 THEN axis + r + 1 ELSE axis)]

-----------------------------------------------------------------------------
\* Pytrees

Leaf == [kind |-> "*", children |-> <<>>]

Node(kind, children) == [kind |-> kind, children |-> children]

Tree(tree, leaves) == [tree |-> tree, leaves |-> leaves]

ArrayLeaf(a) == Tree(Leaf, <<a>>)

RECURSIVE NumLeaves(_)
NumLeaves(t) ==
    IF t.kind = "*" THEN 1
    ELSE IF t.children = <<>> THEN 0
    ELSE NumLeaves(Head(t.children)) + NumLeaves(Node(t.kind, Tail(t.children)))

RECURSIVE Concat(_)
Concat(ss) == IF ss = <<>> THEN <<>> ELSE Head(ss) \o Concat(Tail(ss))

Repeat(x, k) == [i \in 1..k |-> x]

NoTree == [has |-> FALSE, tree |-> Leaf]

SomeTree(t) == [has |-> TRUE, tree |-> t]

tree_structure(obj) == obj.tree

\* tree_flatten of the argument tuple: the leaves in order and the tuple's treedef.
tree_flatten(args) ==
    [leaves |-> Concat([i \in 1..Len(args) |-> args[i].leaves]),
     tree   |-> Node("tuple", [i \in 1..Len(args) |-> args[i].tree])]

\* in_tree.unflatten(leaves): the argument tuple again, each argument taking
\* as many leaves as its treedef holds.
RECURSIVE unflatten(_, _)
unflatten(trees, leaves) ==
    IF trees = <<>> THEN <<>>
    ELSE LET k == NumLeaves(Head(trees))
         IN  <<Tree(Head(trees), SubSeq(leaves, 1, k))>>
             \o unflatten(Tail(trees), SubSeq(leaves, k + 1, Len(leaves)))

\* An axis specification: one axis for everything, or a tuple with one entry per
\* child of a tuple.
OneAxis(a) == [seq |-> FALSE, one |-> a, many |-> <<>>]

AxisTuple(s) == [seq |-> TRUE, one |-> NoneAx, many |-> s]

\* jax.api_util.flatten_axes(name, treedef, axis_tree): one axis per leaf of
\* treedef. treedef None has no num_leaves (AttributeError); an axis_tree that is
\* no tree prefix of treedef is a ValueError.
flatten_axes(treedef, axis_tree) ==
    IF ~treedef.has
    THEN [ok |-> FALSE, exc |-> "AttributeError", flat |-> <<>>]
    ELSE IF ~axis_tree.seq
    THEN [ok |-> TRUE, exc |-> "none",
          flat |-> Repeat(axis_tree.one, NumLeaves(treedef.tree))]
    ELSE IF treedef.tree.kind # "tuple"
            \/ Len(treedef.tree.children) # Len(axis_tree.many)
    THEN [ok |-> FALSE, exc |-> "ValueError", flat |-> <<>>]
    ELSE [ok |-> TRUE, exc |-> "none",
          flat |-> Concat([i \in 1..Len(axis_tree.many) |->
                      Repeat(axis_tree.many[i], NumLeaves(treedef.tree.children[i]))])]

-----------------------------------------------------------------------------
\* The objects, the mapped functions and the calls the model draws from

Body1 == Node("Body1", <<Leaf>>)

Body2 == Node("Body2", <<Leaf, Leaf>>)

Objects ==
    { Tree(Body1, <<Scalar(1)>>),
      Tree(Body1, <<Scalar(2)>>),
      Tree(Body2, <<Vector(<<3, 4>>), Scalar(5)>>),
      Tree(Body2, <<Scalar(6), Scalar(7)>>) }

ObjectSeqs == UNION { [1..n -> Objects] : n \in 0..MaxN }

Funcs == {"radius", "identity", "const", "withArg"}

V3 == Vector(<<10, 20, 30>>)

M32 == Arr(<<3, 2>>, <<1, 2, 3, 4, 5, 6>>)

ArgTuples ==
    { <<>>,
      <<ArrayLeaf(Scalar(9))>>,
      <<ArrayLeaf(V3)>>,
      <<ArrayLeaf(M32)>>,
      <<Tree(Node("tuple", <<Leaf, Leaf>>), <<V3, M32>>)>>,
      <<ArrayLeaf(Scalar(9)), ArrayLeaf(V3)>> }

InAxes ==
    { OneAxis(Ax(0)), OneAxis(NoneAx), OneAxis(Ax(1)), OneAxis(Ax(-1)),
      AxisTuple(<<Ax(0)>>), AxisTuple(<<NoneAx, Ax(0)>>) }

OutAxes ==
    { OneAxis(Ax(0)), OneAxis(NoneAx), OneAxis(Ax(1)), OneAxis(Ax(-1)),
      AxisTuple(<<Ax(0), NoneAx>>) }

\* The extra arguments are JAX arrays or, for the single-array calls, NumPy arrays.
ArgInputs ==
    (ArgTuples \X {"jax"}) \cup ({<<ArrayLeaf(V3)>>, <<ArrayLeaf(M32)>>} \X {"numpy"})

\* func(body, *args) for the functions of Funcs:
\*   radius   = lambda body, *a: body.radius       (the first leaf of the body)
\*   identity = lambda body, *a: body
\*   const    = lambda body, *a: 7
\*   withArg  = lambda body, t, *a: (body.radius, t)
\* A call of withArg without t is a TypeError.
Apply(func, body, args) ==
    CASE func = "radius"   -> [ok |-> TRUE, tree |-> Leaf, leaves |-> <<body.leaves[1]>>]
      [] func = "identity" -> [ok |-> TRUE, tree |-> body.tree, leaves |-> body.leaves]
      [] func = "const"    -> [ok |-> TRUE, tree |-> Leaf, leaves |-> <<Scalar(7)>>]
      [] func = "withArg"  ->
            IF Len(args) = 0 THEN [ok |-> FALSE, tree |-> Leaf, leaves |-> <<>>]
            ELSE [ok |-> TRUE,
                  tree |-> Node("tuple", <<Leaf, args[1].tree>>),
                  leaves |-> <<body.leaves[1]>> \o args[1].leaves]

\* Which output leaves of func depend on a mapped input, given that the body is
\* mapped and which leaves of each argument are.
OutBatched(func, body, argsBatched) ==
    CASE func = "radius"   -> <<TRUE>>
      [] func = "identity" -> Repeat(TRUE, NumLeaves(body.tree))
      [] func = "const"    -> <<FALSE>>
      [] func = "withArg"  -> <<TRUE>> \o argsBatched[1]

-----------------------------------------------------------------------------
\* What a call of the mapped callable ends in

Returned(tree, leaves) ==
    [ok |-> TRUE, tree |-> tree, leaves |-> leaves, exc |-> "none", where |-> "none",
     at |-> 0, expected |-> Leaf, found |-> Leaf]

Raised(exc, where) ==
    [ok |-> FALSE, tree |-> Leaf, leaves |-> <<>>, exc |-> exc, where |-> where,
     at |-> 0, expected |-> Leaf, found |-> Leaf]

NoOutcome == Raised("none", "none")

\* The ValueError of the loop: the structures differ at object n.
StructureMismatch(n, expected, found) ==
    [ok |-> FALSE, tree |-> Leaf, leaves |-> <<>>, exc |-> "ValueError",
     where |-> "structure", at |-> n, expected |-> expected, found |-> found]

-----------------------------------------------------------------------------
\* ObjectStack.__init__

\* A variant of AllMatch that compares only the last structure with the first.
AllMatchEnds(spec) == spec[Len(spec)] = spec[1]

\* spec.count(spec[0]) == len(spec)
AllMatch(spec) ==
    Cardinality({i \in 1..Len(spec) : spec[i] = spec[1]}) = Len(spec)

\* jax.tree_util.tree_map(lambda *x: jnp.stack(x, axis=0), *objects): leaf by
\* leaf. tree_map raises when the structures differ, jnp.stack when the shapes of
\* the leaves do.
StackObjects(objs) ==
    LET col(j) == jnp_stack([i \in 1..Len(objs) |-> objs[i].leaves[j]], 0)
        k      == Len(objs[1].leaves)
    IN  IF \E i \in 1..Len(objs) : objs[i].tree # objs[1].tree
        THEN [ok |-> FALSE, value |-> objs[1]]
        ELSE [ok    |-> \A j \in 1..k : col(j).ok,
              value |-> Tree(objs[1].tree, [j \in 1..k |-> col(j).val])]

NoStack == [has |-> FALSE, value |-> Tree(Leaf, <<>>)]

\* The value of self.stack when __init__ returns, and whether it raised instead.
BuildStack(objs) ==
    IF Len(objs) = 0 THEN [raised |-> FALSE, stack |-> NoStack]
    ELSE LET spec == [i \in 1..Len(objs) |-> tree_structure(objs[i])]
         IN  IF AllMatch(spec)
             THEN LET st == StackObjects(objs)
                  IN  IF st.ok
                      THEN [raised |-> FALSE, stack |-> [has |-> TRUE, value |-> st.value]]
                      ELSE [raised |-> TRUE, stack |-> NoStack]
             ELSE [raised |-> FALSE, stack |-> NoStack]

-----------------------------------------------------------------------------
\* index_helper and flatten_func_for_object_vmap

\* arg[(slice(None),) * axis + (n,)], or arg when axis is None. A tuple times a
\* number <= 0 is empty, so a negative axis puts n at axis 0. More indices than
\* dimensions is an IndexError; n past the end is an IndexError for a NumPy array
\* and is clamped to the last position for a JAX array.
index_helper(n, arg, axis, kind) ==
    IF axis.none THEN [ok |-> TRUE, val |-> arg]
    ELSE LET slices == IF axis.ax > 0 THEN axis.ax ELSE 0
         IN  IF slices + 1 > Rank(arg) THEN [ok |-> FALSE, val |-> arg]
             ELSE LET size == arg.shape[slices + 1]
                  IN  IF n < size THEN [ok |-> TRUE, val |-> Take(arg, slices, n)]
                      ELSE IF kind = "jax" /\ size > 0
                      THEN [ok |-> TRUE, val |-> Take(arg, slices, size - 1)]
                      ELSE [ok |-> FALSE, val |-> arg]

\* args_indexed, then in_tree.unflatten(args_indexed): the arguments func gets
\* for the object at index.
args_indexed(in_tree, in_axes_flat, index, args_flat, kind) ==
    LET sel(i) == index_helper(index, args_flat[i], in_axes_flat[i], kind)
    IN  [ok   |-> \A i \in 1..Len(args_flat) : sel(i).ok,
         args |-> unflatten(in_tree.children,
                            [i \in 1..Len(args_flat) |-> sel(i).val])]

-----------------------------------------------------------------------------
\* impl, the slow path: the loop over the objects and the stacking

\* A variant of Inconsistent with the comparison inverted.
InconsistentInverted(out_tree, out_tree_) == out_tree.has /\ out_tree_ = out_tree.tree

\* out_tree is not None and out_tree_ != out_tree
Inconsistent(out_tree, out_tree_) == out_tree.has /\ out_tree_ # out_tree.tree

LoopStart ==
    [raised |-> FALSE, out |-> NoOutcome, results |-> <<>>, out_tree |-> NoTree,
     evals |-> <<>>]

\* for n, body in enumerate(self.objects), from index n on; st holds results,
\* out_tree and the calls of func made so far.
RECURSIVE Loop(_, _, _, _, _)
Loop(objs, c, in_axes_flat, n, st) ==
    IF n >= Len(objs) THEN st
    ELSE
    LET body == objs[n + 1]
        flat == tree_flatten(c.args)
        sel  == args_indexed(flat.tree, in_axes_flat, n, flat.leaves, c.kind)
    IN  IF ~sel.ok
        THEN [st EXCEPT !.raised = TRUE, !.out = Raised("IndexError", "index_helper")]
        ELSE
        LET r  == Apply(c.func, body, sel.args)
            ev == Append(st.evals, [n |-> n, body |-> body, args |-> sel.args,
                                    ok |-> r.ok, out_tree_ |-> r.tree])
        IN  IF ~r.ok
            THEN [st EXCEPT !.raised = TRUE, !.evals = ev,
                            !.out = Raised("TypeError", "func")]
            ELSE
            LET res == Append(st.results, r.leaves)
            IN  IF Inconsistent(st.out_tree, r.tree)
                THEN [st EXCEPT !.raised = TRUE, !.evals = ev, !.results = res,
                                !.out = StructureMismatch(n, st.out_tree.tree, r.tree)]
                ELSE Loop(objs, c, in_axes_flat, n + 1,
                          [st EXCEPT !.evals = ev, !.results = res,
                                     !.out_tree = SomeTree(r.tree)])

\* A variant of StackOrFirst that stacks the parts in reverse order.
StackReversed(a, parts) ==
    IF a.none THEN [ok |-> TRUE, val |-> parts[1]]
    ELSE jnp_stack([i \in 1..Len(parts) |-> parts[Len(parts) + 1 - i]], a.ax)

\* A variant of StackOrFirst that takes the last part of an unmapped leaf.
StackOrLast(a, parts) ==
    IF a.none THEN [ok |-> TRUE, val |-> parts[Len(parts)]] ELSE jnp_stack(parts, a.ax)

\* parts[0] if a is None else jnpu.stack(parts, axis=a)
StackOrFirst(a, parts) ==
    IF a.none THEN [ok |-> TRUE, val |-> parts[1]] ELSE jnp_stack(parts, a.ax)

\* out_tree.unflatten(... for a, *parts in zip(out_axes_flat, *results)): zip
\* stops with its shortest argument, and unflatten raises a ValueError when it
\* gets another number of leaves than out_tree holds.
Unflatten(st, out_axes_flat) ==
    LET lens    == {Len(out_axes_flat)} \cup {Len(st.results[i]) : i \in 1..Len(st.results)}
        k       == CHOOSE m \in lens : \A l \in lens : m <= l
        leaf(j) == StackOrFirst(out_axes_flat[j],
                                [i \in 1..Len(st.results) |-> st.results[i][j]])
    IN  IF \E j \in 1..k : ~leaf(j).ok
        THEN [st EXCEPT !.raised = TRUE, !.out = Raised("ValueError", "stack")]
        ELSE IF k # NumLeaves(st.out_tree.tree)
        THEN [st EXCEPT !.raised = TRUE, !.out = Raised("ValueError", "unflatten")]
        ELSE [st EXCEPT !.out = Returned(st.out_tree.tree, [j \in 1..k |-> leaf(j).val])]

\* A variant of Assemble that returns an empty tuple when no object was evaluated.
AssembleEmptyOk(st, out_axes) ==
    IF ~st.out_tree.has THEN [st EXCEPT !.out = Returned(Node("tuple", <<>>), <<>>)]
    ELSE Unflatten(st, flatten_axes(st.out_tree, out_axes).flat)

\* out_axes_flat and the returned value after the loop.
Assemble(st, out_axes) ==
    LET axes == flatten_axes(st.out_tree, out_axes)
    IN  IF ~axes.ok
        THEN [st EXCEPT !.raised = TRUE, !.out = Raised(axes.exc, "out_axes")]
        ELSE Unflatten(st, axes.flat)

\* Lines 97-126 of impl: flatten the arguments and in_axes_, loop, assemble.
SlowPath(objs, c, in_axes_) ==
    LET flat == tree_flatten(c.args)
        axes == flatten_axes(SomeTree(flat.tree), AxisTuple(in_axes_))
    IN  IF ~axes.ok
        THEN [LoopStart EXCEPT !.raised = TRUE, !.out = Raised(axes.exc, "in_axes")]
        ELSE LET st == Loop(objs, c, axes.flat, 0, LoopStart)
             IN  IF st.raised THEN st ELSE Assemble(st, c.out_axes)

-----------------------------------------------------------------------------
\* impl, the fast path: jax.vmap(func, in_axes=(0,) + in_axes_, out_axes)(stack, *args)

\* jax.vmap as documented: in_axes is a tree prefix of the arguments, every
\* mapped axis is within its leaf's rank (a negative one counts from the end) and
\* all mapped axes have one size; func is traced once; out_axes is a tree prefix
\* of the output, an output that depends on a mapped input cannot have out axis
\* None, and the others carry the batch at their out axis. Any violation is a
\* ValueError. calls counts the evaluations of func.
jax_vmap(func, in_axes, out_axes, all) ==
    LET flat == tree_flatten(all)
        axes == flatten_axes(SomeTree(flat.tree), AxisTuple(in_axes))
    IN  IF ~axes.ok THEN [out |-> Raised("ValueError", "in_axes"), calls |-> 0]
        ELSE
        LET L         == flat.leaves
            mapped    == {i \in 1..Len(L) : ~axes.flat[i].none}
            inRange(i) == axes.flat[i].ax >= -Rank(L[i]) /\ axes.flat[i].ax < Rank(L[i])
            canon(i)  == IF axes.flat[i].ax < 0 THEN axes.flat[i].ax + Rank(L[i])
                         ELSE axes.flat[i].ax
            size(i)   == L[i].shape[canon(i) + 1]
        IN  IF \E i \in mapped : ~inRange(i)
            THEN [out |-> Raised("ValueError", "in_axes"), calls |-> 0]
            ELSE IF \E i, j \in mapped : size(i) # size(j)
            THEN [out |-> Raised("ValueError", "in_axes"), calls |-> 0]
            ELSE
            LET B        == size(CHOOSE i \in mapped : TRUE)
                slice(b) == unflatten(flat.tree.children,
                                [i \in 1..Len(L) |->
                                    IF i \in mapped THEN Take(L[i], canon(i), b) ELSE L[i]])
                per(b)   == Apply(func, Head(slice(b)), Tail(slice(b)))
                r0       == per(0)
            IN  IF ~r0.ok THEN [out |-> Raised("TypeError", "func"), calls |-> 1]
                ELSE
                LET oaxes   == flatten_axes(SomeTree(r0.tree), out_axes)
                    batched == OutBatched(func, Head(all),
                                   [i \in 1..(Len(all) - 1) |->
                                       [j \in 1..Len(all[i + 1].leaves) |->
                                           ~in_axes[i + 1].none]])
                    k       == Len(r0.leaves)
                    leaf(j) == IF oaxes.flat[j].none
                               THEN [ok |-> ~batched[j], val |-> r0.leaves[j]]
                               ELSE jnp_stack([b \in 1..B |-> per(b - 1).leaves[j]],
                                              oaxes.flat[j].ax)
                IN  IF ~oaxes.ok \/ \E j \in 1..k : ~leaf(j).ok
                    THEN [out |-> Raised("ValueError", "out_axes"), calls |-> 1]
                    ELSE [out |-> Returned(r0.tree, [j \in 1..k |-> leaf(j).val]),
                          calls |-> 1]

\* Lines 88-92 of impl.
FastPath(stackValue, c, in_axes_) ==
    jax_vmap(c.func, <<Ax(0)>> \o in_axes_, c.out_axes, <<stackValue>> \o c.args)

\* A variant of NormalizeInAxes that cuts or pads a sequence to the arguments.
NormalizePadded(in_axes, args) ==
    [i \in 1..Len(args) |->
        IF ~in_axes.seq THEN in_axes.one
        ELSE IF i <= Len(in_axes.many) THEN in_axes.many[i] ELSE NoneAx]

\* Lines 82-86 of impl: in_axes as a tuple with one entry per argument.
NormalizeInAxes(in_axes, args) ==
    IF in_axes.seq THEN in_axes.many ELSE [i \in 1..Len(args) |-> in_axes.one]

\* A variant of impl that loops over the objects whether or not there is a stack.
implAlwaysLoop(objs, stk, c) ==
    LET r == SlowPath(objs, c, NormalizeInAxes(c.in_axes, c.args))
    IN  [out |-> r.out, results |-> r.results, out_tree |-> r.out_tree,
         evals |-> r.evals, vmapCalls |-> 0, traces |-> 0]

\* impl(*args) of the callable self.vmap(func, in_axes, out_axes) returns, for
\* self.objects = objs and self.stack = stk: what the call ends in, with the
\* loop's results, out_tree and calls of func, and the jax.vmap calls made.
impl(objs, stk, c) ==
    LET in_axes_ == NormalizeInAxes(c.in_axes, c.args)
    IN  IF stk.has
        THEN LET r == FastPath(stk.value, c, in_axes_)
             IN  [out |-> r.out, results |-> <<>>, out_tree |-> NoTree, evals |-> <<>>,
                  vmapCalls |-> 1, traces |-> r.calls]
        ELSE LET r == SlowPath(objs, c, in_axes_)
             IN  [out |-> r.out, results |-> r.results, out_tree |-> r.out_tree,
                  evals |-> r.evals, vmapCalls |-> 0, traces |-> 0]

-----------------------------------------------------------------------------
\* The state: one ObjectStack, and the last call of a callable made by its vmap

VARIABLES
    pc,         \* "start", "ready" (constructed), "raised" (__init__ raised), "done"
    objects,    \* self.objects
    stack,      \* self.stack: [has, value]
    call,       \* func, in_axes, out_axes of vmap and args of impl; kind of the args
    outcome,    \* what the call ended in: a value or an exception
    results,    \* impl's results when it ended
    out_tree,   \* impl's out_tree when it ended
    evals,      \* the calls func(body, *args) the loop made, in order
    vmapCalls,  \* the calls of a jax.vmap-wrapped func the call made
    traces      \* the evaluations of func under jax.vmap

vars == <<pc, objects, stack, call, outcome, results, out_tree, evals, vmapCalls, traces>>

NoCall ==
    [func |-> "const", in_axes |-> OneAxis(Ax(0)), out_axes |-> OneAxis(Ax(0)),
     args |-> <<>>, kind |-> "jax"]

Init ==
    /\ pc = "start"
    /\ objects = <<>>
    /\ stack = NoStack
    /\ call = NoCall
    /\ outcome = NoOutcome
    /\ results = <<>>
    /\ out_tree = NoTree
    /\ evals = <<>>
    /\ vmapCalls = 0
    /\ traces = 0

\* ObjectStack(*objs)
Construct ==
    /\ pc = "start"
    /\ \E objs \in ObjectSeqs :
         LET b == BuildStack(objs)
         IN  /\ objects' = objs
             /\ stack' = b.stack
             /\ pc' = IF b.raised THEN "raised" ELSE "ready"
    /\ UNCHANGED <<call, outcome, results, out_tree, evals, vmapCalls, traces>>

\* self.vmap(func, in_axes, out_axes)(*args)
Call ==
    /\ pc = "ready"
    /\ \E func \in Funcs, in_axes \in InAxes, out_axes \in OutAxes, a \in ArgInputs :
         LET c == [func |-> func, in_axes |-> in_axes, out_axes |-> out_axes,
                   args |-> a[1], kind |-> a[2]]
         IN  \E r \in {impl(objects, stack, c)} :
             /\ call' = c
             /\ outcome' = r.out
             /\ results' = r.results
             /\ out_tree' = r.out_tree
             /\ evals' = r.evals
             /\ vmapCalls' = r.vmapCalls
             /\ traces' = r.traces
    /\ pc' = "done"
    /\ UNCHANGED <<objects, stack>>

\* The call has returned or raised; the callable can be called again.
Return ==
    /\ pc = "done"
    /\ pc' = "ready"
    /\ call' = NoCall
    /\ outcome' = NoOutcome
    /\ results' = <<>>
    /\ out_tree' = NoTree
    /\ evals' = <<>>
    /\ vmapCalls' = 0
    /\ traces' = 0
    /\ UNCHANGED <<objects, stack>>

Next == Construct \/ Call \/ Return

Spec == Init /\ [][Next]_vars

-----------------------------------------------------------------------------
\* What the claims speak of

Done == pc = "done"

FastTaken == Done /\ stack.has

SlowTaken == Done /\ ~stack.has

N == Len(objects)

SameStructure(objs) == \A i \in 1..Len(objs) : objs[i].tree = objs[1].tree

\* The axis counted from the front of an array of rank r.
Canon(ax, r) == IF ax < 0 THEN ax + r ELSE ax

\* The axes of the flattened arguments and of the flattened output of the call.
CallInAxesFlat ==
    flatten_axes(SomeTree(tree_flatten(call.args).tree),
                 AxisTuple(NormalizeInAxes(call.in_axes, call.args))).flat

OutAxesFlat(tree) == flatten_axes(SomeTree(tree), call.out_axes).flat

\* Every object was evaluated and all results have one structure.
AllEvaluatedAlike ==
    /\ Len(evals) = N
    /\ \A i \in 1..N : evals[i].ok /\ evals[i].out_tree_ = evals[1].out_tree_

\* out_axes is a tree prefix of the common result structure.
OutAxesFit ==
    \/ ~call.out_axes.seq
    \/ /\ evals[1].out_tree_.kind = "tuple"
       /\ Len(evals[1].out_tree_.children) = Len(call.out_axes.many)

\* The out axis of every mapped output leaf is a position of the stacked leaf.
OutAxesInRange ==
    \A j \in 1..Len(results[1]) :
        LET a == OutAxesFlat(evals[1].out_tree_)[j]
            r == Rank(results[1][j])
        IN  a.none \/ (a.ax >= -(r + 1) /\ a.ax <= r)

\* At every mapped output leaf the per-object leaves have one array shape.
MappedShapesAgree ==
    \A j \in 1..Len(results[1]) :
        \/ OutAxesFlat(evals[1].out_tree_)[j].none
        \/ \A i \in 1..N : results[i][j].shape = results[1][j].shape

\* The returned value holds, at every mapped output leaf and along its out axis,
\* the N per-object leaves in object order.
StackedInObjectOrder ==
    /\ outcome.ok
    /\ \A j \in 1..Len(outcome.leaves) :
         LET a == OutAxesFlat(outcome.tree)[j]
             l == outcome.leaves[j]
         IN  a.none \/
             /\ l.shape[Canon(a.ax, Rank(l)) + 1] = N
             /\ \A n \in 0..(N - 1) :
                  Take(l, Canon(a.ax, Rank(l)), n) = results[n + 1][j]

-----------------------------------------------------------------------------
\* C2: after construction the stacked value is present exactly when there is at
\* least one object and every object's structure equals the first one's; the
\* constructor never raises for no objects or for objects of differing structure.
C2_StackPresentIffUniform ==
    /\ pc \in {"ready", "done"} => (stack.has <=> (N > 0 /\ SameStructure(objects)))
    /\ pc = "raised" => (N > 0 /\ SameStructure(objects))

\* Three objects, the first two of one structure and the third of another, were
\* constructed into a stack without a stacked value.
C2_Witness ==
    /\ pc = "ready" /\ N = 3 /\ ~stack.has
    /\ objects[1].tree = objects[2].tree /\ objects[3].tree # objects[1].tree

\* C3: a slow-path call ends in the structure-mismatch error, and in no value,
\* exactly when some object's result structure differs from that of object 0's
\* result; it is raised at the first such object, with object 0's structure as
\* the expected one and the differing one as the found one.
C3_MismatchIffStructuresDiffer ==
    SlowTaken =>
        LET differ == {i \in 1..Len(evals) :
                          evals[i].ok /\ evals[i].out_tree_ # evals[1].out_tree_}
        IN  /\ (~outcome.ok /\ outcome.where = "structure") <=> differ # {}
            /\ differ # {} =>
                 LET first == CHOOSE i \in differ : \A k \in differ : i <= k
                 IN  /\ outcome.at = first - 1
                     /\ Len(evals) = first
                     /\ outcome.expected = evals[1].out_tree_
                     /\ outcome.found = evals[first].out_tree_
                     /\ outcome.leaves = <<>>

\* The third object's result is the first to differ in structure.
C3_Witness ==
    /\ SlowTaken /\ ~outcome.ok /\ outcome.where = "structure" /\ outcome.at = 2
    /\ evals[2].out_tree_ = evals[1].out_tree_

\* C4: a call with in_axes a sequence whose length is not the number of extra
\* arguments ends in the ValueError of the in_axes check and func is never
\* evaluated, with the stacked value present or absent.
C4_InAxesLengthChecked ==
    (Done /\ call.in_axes.seq /\ Len(call.in_axes.many) # Len(call.args)) =>
        /\ ~outcome.ok
        /\ outcome.exc = "ValueError" /\ outcome.where = "in_axes"
        /\ evals = <<>> /\ traces = 0

\* A stack of several objects without a stacked value was called with one axis
\* for two arguments.
C4_Witness ==
    /\ SlowTaken /\ N >= 2
    /\ call.in_axes.seq /\ Len(call.in_axes.many) = 1 /\ Len(call.args) = 2

\* C5: a call on an empty stack never returns a value: it ends in an error raised
\* by the in_axes check or by the out_axes flattening against the unknown output
\* structure, and func is never evaluated.
C5_EmptyStackCallRaises ==
    (Done /\ N = 0) =>
        /\ ~outcome.ok
        /\ outcome.where \in {"in_axes", "out_axes"}
        /\ evals = <<>> /\ traces = 0 /\ vmapCalls = 0

\* An empty stack was called with fitting in_axes and the call ended in the error
\* of the out_axes flattening.
C5_Witness ==
    /\ Done /\ N = 0 /\ ~outcome.ok /\ outcome.where = "out_axes"
    /\ Len(call.args) = 1

\* C6 as stated: for two or more objects of differing structure the call succeeds
\* whenever all per-object results share one structure (out_axes being axes of
\* the result), with the per-object leaves stacked in object order.
C6_AsStated ==
    (SlowTaken /\ N >= 2 /\ AllEvaluatedAlike /\ OutAxesFit /\ OutAxesInRange)
        => StackedInObjectOrder

\* C6 amended: the same, provided that at every mapped output leaf the
\* per-object result leaves have one array shape.
C6_StackedWhenShapesAgree ==
    (SlowTaken /\ N >= 2 /\ AllEvaluatedAlike /\ OutAxesFit /\ OutAxesInRange
        /\ MappedShapesAgree)
        => StackedInObjectOrder

\* Three objects of differing structure gave three different leaves that were
\* stacked.
C6_Witness ==
    /\ SlowTaken /\ N = 3 /\ outcome.ok
    /\ \E j \in 1..Len(outcome.leaves) :
         /\ ~OutAxesFlat(outcome.tree)[j].none
         /\ results[1][j] # results[2][j] /\ results[2][j] # results[3][j]

C10_OnePathInOrder ==
    Done =>
        IF stack.has
        THEN vmapCalls = 1 /\ traces <= 1 /\ evals = <<>>
        ELSE /\ vmapCalls = 0 /\ traces = 0
             /\ Len(evals) <= N
             /\ \A i \in 1..Len(evals) : evals[i].n = i - 1 /\ evals[i].body = objects[i]
             /\ \A i \in 1..(Len(evals) - 1) :
                  evals[i].ok /\ evals[i].out_tree_ = evals[1].out_tree_

\* The second of three objects gave a differing structure and the third was
\* never evaluated.
C10_Witness ==
    /\ SlowTaken /\ N = 3 /\ Len(evals) = 2
    /\ evals[2].ok /\ evals[2].out_tree_ # evals[1].out_tree_

-----------------------------------------------------------------------------
\* Two outcomes agree: both are errors, or both are the same value.
Agree(x, y) ==
    /\ x.ok = y.ok
    /\ x.ok => (x.tree = y.tree /\ x.leaves = y.leaves)

\* C1: for a stack with the stacked value present, the fast path's outcome is
\* the outcome of the slow path on the same objects and the same call,
\* including whether it is an error.
C1_FastEqualsSlow ==
    FastTaken =>
        Agree(outcome,
              SlowPath(objects, call, NormalizeInAxes(call.in_axes, call.args)).out)

\* C8: in the slow path func gets, for the object at index n and every argument
\* leaf, the leaf itself when its axis is None and otherwise the leaf at
\* position n of its axis, for every axis jax.vmap accepts for the leaf
\* (-rank <= axis < rank, a negative axis counted from the end) that has a
\* position n.
C8_IndexedAlongDeclaredAxis ==
    SlowTaken =>
        \A e \in 1..Len(evals) :
            LET given  == tree_flatten(call.args).leaves
                passed == tree_flatten(evals[e].args).leaves
            IN  \A i \in 1..Len(given) :
                    LET a == CallInAxesFlat[i]
                        r == Rank(given[i])
                    IN  /\ a.none => passed[i] = given[i]
                        /\ (~a.none /\ a.ax >= -r /\ a.ax < r
                              /\ evals[e].n < given[i].shape[Canon(a.ax, r) + 1])
                           => passed[i] = Take(given[i], Canon(a.ax, r), evals[e].n)

\* The permutations of 1..n.
Perms(n) == {p \in [1..n -> 1..n] : \A i, j \in 1..n : p[i] = p[j] => i = j}

\* The array a with the entries along axis reordered: position n holds what
\* position p[n + 1] - 1 held.
PermuteAlong(a, axis, p) ==
    StackAt([n \in 1..Len(p) |-> Take(a, axis, p[n] - 1)], axis)

\* Every mapped argument leaf has its axis within its rank, with N positions.
MappedInputsFit ==
    /\ flatten_axes(SomeTree(tree_flatten(call.args).tree),
                    AxisTuple(NormalizeInAxes(call.in_axes, call.args))).ok
    /\ \A i \in 1..Len(tree_flatten(call.args).leaves) :
         LET a == CallInAxesFlat[i]
             l == tree_flatten(call.args).leaves[i]
         IN  a.none \/ /\ a.ax >= -Rank(l) /\ a.ax < Rank(l)
                       /\ l.shape[Canon(a.ax, Rank(l)) + 1] = N

\* The objects agree on every output leaf declared not mapped.
UnmappedOutputsAgree ==
    stack.has \/
    \A j \in 1..Len(outcome.leaves) :
        OutAxesFlat(outcome.tree)[j].none =>
            \A i \in 1..Len(results) : results[i][j] = results[1][j]

\* The call with the objects and the mapped argument leaves reordered by p.
PermutedOutcome(p) ==
    LET objs == [i \in 1..N |-> objects[p[i]]]
        flat == tree_flatten(call.args)
        args == unflatten(flat.tree.children,
                    [i \in 1..Len(flat.leaves) |->
                        IF CallInAxesFlat[i].none THEN flat.leaves[i]
                        ELSE PermuteAlong(flat.leaves[i],
                                 Canon(CallInAxesFlat[i].ax, Rank(flat.leaves[i])), p)])
    IN  impl(objs, BuildStack(objs).stack, [call EXCEPT !.args = args]).out

\* The returned value with every mapped output leaf reordered by p.
ReorderedOutput(p) ==
    Returned(outcome.tree,
        [j \in 1..Len(outcome.leaves) |->
            LET a == OutAxesFlat(outcome.tree)[j]
                l == outcome.leaves[j]
            IN  IF a.none THEN l ELSE PermuteAlong(l, Canon(a.ax, Rank(l)), p)])

\* C7: reordering the objects, and the mapped inputs with them, only reorders
\* the stacked output leaves along their mapped axes, given that the objects
\* agree on the output leaves declared not mapped.
C7_PermutationOnlyReorders ==
    (Done /\ outcome.ok /\ MappedInputsFit /\ UnmappedOutputsAgree) =>
        \A p \in Perms(N) : PermutedOutcome(p) = ReorderedOutput(p)

====
